---------------------------- MODULE Spec2Model ----------------------------
(* A model of tree_printer.py: Node objects on a heap, a TreePrinter view   *)
(* built from a root, and the render operation __str__ with its four        *)
(* passes.  A string is the sequence of its characters, each character its  *)
(* Unicode code point (ord), so every row is computed character by          *)
(* character as the Python code computes it.                                *)
EXTENDS Integers, Sequences, FiniteSets

VARIABLES
    nodes,              \* the heap of Node objects: nodes[id] = [value, left, right]
    constructed,        \* TRUE once TreePrinter.__init__ has run
    root,               \* TreePrinter._root (a node id or None)
    max_value_len,      \* TreePrinter._max_value_len
    inorder_listinfo,   \* TreePrinter._inorder_listinfo: [chain, items]
    renders,            \* number of __str__ calls on the view so far
    tree_lines,         \* __str__: tree_lines of the latest call
    scheleton_lines,    \* __str__: scheleton_lines of the latest call
    first_lines,        \* __str__: first_lines_below_tree_lines
    second_lines,       \* __str__: second_lines_below_tree_lines
    third_lines,        \* __str__: third_lines_below_tree_lines
    first_out,          \* the string returned by the first __str__ call
    out,                \* the string returned by the latest __str__ call
    raised              \* the exception a __str__ call ended with ("" for none)

vars == <<nodes, constructed, root, max_value_len, inorder_listinfo, renders,
          tree_lines, scheleton_lines, first_lines, second_lines, third_lines,
          first_out, out, raised>>

-----------------------------------------------------------------------------
(* Bounds of the model. *)

\* most Node objects the caller constructs
MaxNodes == 4

\* most Node objects the caller constructs when it also uses ExtraValues
MaxExtraNodes == 2

\* most __str__ calls on one view
MaxRenders == 2

-----------------------------------------------------------------------------
(* Program constants and the values the caller passes. *)

VALUE_MAX_LEN == 80

\* the absent node / absent child
None == 0

\* n copies of the character c: Python's c * n (empty when n <= 0)
Chars(c, n) == [i \in 1..n |-> c]

\* the characters the row builders write, as code points
SP == 32           \* ' '

NL == 10           \* '\n'

SLASH == 47        \* '/'

BACKSLASH == 92    \* '\\'

DASH == 45         \* '-'

BAR == 124         \* '|'

\* the value '5'
Five == <<53>>

\* a value one character longer than VALUE_MAX_LEN: 'x' * 81
LongValue == Chars(120, VALUE_MAX_LEN + 1)

\* the value strings Node(...) is called with (str(value)): '5', '123' and
\* the blank ' '
Values == { Five, <<49, 50, 51>>, <<SP>> }

\* further value strings, used in the smaller trees: 'a\t', of even length
\* and ending in a tab, and the value longer than VALUE_MAX_LEN
ExtraValues == { <<97, 9>>, LongValue }

\* the characters str.rstrip() removes, those str.isspace() holds of:
\* U+0009..U+000D, U+001C..U+0020, U+0085, U+00A0, U+1680, U+2000..U+200A,
\* U+2028, U+2029, U+202F, U+205F, U+3000
Whitespace ==
    (9..13) \cup (28..32) \cup {133, 160, 5760} \cup (8192..8202)
    \cup {8232, 8233, 8239, 8287, 12288}

-----------------------------------------------------------------------------
(* Node *)

get_value(n) == nodes[n].value

get_left(n) == nodes[n].left

get_right(n) == nodes[n].right

\* a child reference moved by k places in the heap
Shift(ref, k) == IF ref = None THEN None ELSE ref + k

\* The heaps a caller can build with n calls of Node(...) that make one
\* tree: every child is constructed before its parent and is handed to one
\* parent only.  Ids are given in construction order, left subtree first,
\* then the right subtree, then the node itself.
\* V is the set the values are taken from.
RECURSIVE Trees(_, _)
Trees(V, n) ==
    IF n = 0 THEN { <<>> }
    ELSE UNION { UNION { {
             l
             \o [i \in 1..Len(r) |->
                   [value |-> r[i].value,
                    left  |-> Shift(r[i].left, k),
                    right |-> Shift(r[i].right, k)]]
             \o << [value |-> v,
                    left  |-> (IF k = 0 THEN None ELSE k),
                    right |-> (IF n - 1 - k = 0 THEN None ELSE n - 1)] >>
             : v \in V }
           : l \in Trees(V, k), r \in Trees(V, n - 1 - k) } : k \in 0..(n - 1) }

\* the ids of the nodes no other node holds as a child
Orphans == {n \in 1..Len(nodes) :
              \A p \in 1..Len(nodes) : nodes[p].left # n /\ nodes[p].right # n}

-----------------------------------------------------------------------------
(* Python built-ins *)

Max2(a, b) == IF a >= b THEN a ELSE b

Min2(a, b) == IF a <= b THEN a ELSE b

\* str.center(width): CPython pads left with marg/2 + (marg & width & 1)
center(s, width) ==
    IF Len(s) >= width THEN s
    ELSE LET marg == width - Len(s)
             left == (marg \div 2) + (IF marg % 2 = 1 /\ width % 2 = 1 THEN 1 ELSE 0)
         IN  Chars(SP, left) \o s \o Chars(SP, marg - left)

\* no trimming at all
rstrip_nothing(s) == s

\* str.rstrip(): scan back from the end of s while the character met is
\* whitespace, and drop the k characters passed
rstrip(s) ==
    LET n == Len(s)
        k == CHOOSE j \in 0..n :
                 /\ j = n \/ s[n - j] \notin Whitespace
                 /\ \A i \in 1..j : s[n - i + 1] \in Whitespace
    IN  SubSeq(s, 1, n - k)

\* ''.join(parts)
RECURSIVE join_from(_, _)
join_from(parts, i) ==
    IF i > Len(parts) THEN <<>> ELSE parts[i] \o join_from(parts, i + 1)

join(parts) == join_from(parts, 1)

\* sep.join(parts)
RECURSIVE sep_join_from(_, _, _)
sep_join_from(sep, parts, i) ==
    IF i > Len(parts) THEN <<>>
    ELSE IF i = Len(parts) THEN parts[i]
    ELSE parts[i] \o sep \o sep_join_from(sep, parts, i + 1)

sep_join(sep, parts) == sep_join_from(sep, parts, 1)

\* a slice bound as list slicing reads it: negative counts from the end,
\* then clamped to 0..len
slice_bound(i, len) ==
    LET j == IF i < 0 THEN i + len ELSE i
    IN  Max2(0, Min2(j, len))

\* lst[a:b] = repl
slice_assign(lst, a, b, repl) ==
    LET lo == slice_bound(a, Len(lst))
        hi == Max2(lo, slice_bound(b, Len(lst)))
    IN  SubSeq(lst, 1, lo) \o repl \o SubSeq(lst, hi + 1, Len(lst))

-----------------------------------------------------------------------------
(* TreePrinter._get_inorder_listinfo and _find_max_value_len *)

\* a listing that keeps the absent node instead of skipping it
RECURSIVE unguarded_wrapped(_, _)
unguarded_wrapped(cur_node, level) ==
    IF cur_node = None THEN << <<level, cur_node>> >>
    ELSE unguarded_wrapped(get_left(cur_node), level + 1)
         \o << <<level, cur_node>> >>
         \o unguarded_wrapped(get_right(cur_node), level + 1)

\* a pre-order listing: the node before its left subtree
RECURSIVE preorder_wrapped(_, _)
preorder_wrapped(cur_node, level) ==
    IF cur_node = None THEN <<>>
    ELSE << <<level, cur_node>> >>
         \o preorder_wrapped(get_left(cur_node), level + 1)
         \o preorder_wrapped(get_right(cur_node), level + 1)

RECURSIVE inorder_wrapped(_, _)
inorder_wrapped(cur_node, level) ==
    IF cur_node = None THEN <<>>
    ELSE inorder_wrapped(get_left(cur_node), level + 1)
         \o << <<level, cur_node>> >>
         \o inorder_wrapped(get_right(cur_node), level + 1)

\* wrapped(None, 0) is the list [], which can be iterated again and again;
\* for a node it is an itertools.chain object, which is consumed by iterating
get_inorder_listinfo(r) ==
    [chain |-> r # None, items |-> inorder_wrapped(r, 0)]

RECURSIVE max_len_wrapped(_)
max_len_wrapped(cur_node) ==
    IF cur_node = None THEN -VALUE_MAX_LEN
    ELSE Max2(Len(get_value(cur_node)),
              Max2(max_len_wrapped(get_left(cur_node)),
                   max_len_wrapped(get_right(cur_node))))

find_max_value_len(r) == max_len_wrapped(r)

\* __init__: self._max_value_len
init_max_value_len(r) == Max2(2, find_max_value_len(r))

-----------------------------------------------------------------------------
(* The row builders.  A tree_line is a sequence of <<position, node>>. *)

\* the value left as it is, not centered
uncentered_node_value(node) == get_value(node)

get_centered_node_value(node) == center(get_value(node), max_value_len)

left_pad_node_using_offset(offset, node) ==
    join(Chars(Chars(SP, max_value_len), offset)) \o get_centered_node_value(node)

\* last_position_offset set to position instead of position + 1
offset_at_no_step(tree_line, i) ==
    tree_line[i][1] - (IF i = 1 THEN 0 ELSE tree_line[i - 1][1])

\* the offset handed to format_action for the i-th entry of tree_line:
\* position - last_position_offset, last_position_offset being 0 at first
\* and the previous position + 1 afterwards
offset_at(tree_line, i) ==
    tree_line[i][1] - (IF i = 1 THEN 0 ELSE tree_line[i - 1][1] + 1)

\* the stubs taken from the wrong children
first_line_action_swapped(offset, node) ==
    join(Chars(Chars(SP, max_value_len), offset))
    \o <<(IF get_right(node) # None THEN SLASH ELSE SP)>>
    \o Chars(SP, max_value_len - 2)
    \o <<(IF get_left(node) # None THEN BACKSLASH ELSE SP)>>

\* the lambda _get_first_line_below_tree_line passes as format_action
first_line_action(offset, node) ==
    join(Chars(Chars(SP, max_value_len), offset))
    \o <<(IF get_left(node) # None THEN SLASH ELSE SP)>>
    \o Chars(SP, max_value_len - 2)
    \o <<(IF get_right(node) # None THEN BACKSLASH ELSE SP)>>

\* the lambda _get_third_line_below_tree_line passes as format_action
third_line_action(offset, node) ==
    LET half_max_len == max_value_len \div 2
    IN  join(Chars(Chars(SP, max_value_len), offset))
        \o Chars(SP, half_max_len)
        \o <<BAR>>
        \o Chars(SP, max_value_len - half_max_len - 1)

\* the callable passed as format_action, named by the method that passes it
format_action(action, offset, node) ==
    CASE action = "scheleton"  -> left_pad_node_using_offset(offset, node)
      [] action = "first_line" -> first_line_action(offset, node)
      [] action = "third_line" -> third_line_action(offset, node)

format_tree_line_with_offsets(tree_line, action) ==
    join([i \in 1..Len(tree_line) |->
            format_action(action, offset_at(tree_line, i), tree_line[i][2])])

build_tree_scheleton(tls) ==
    [i \in 1..Len(tls) |->
        format_tree_line_with_offsets(tls[i], "scheleton")]

get_first_line_below_tree_line(tree_line) ==
    format_tree_line_with_offsets(tree_line, "first_line")

\* fill_line_blocks of _get_second_line_below_tree_line
fill_line_blocks(line_blocks, start, end, is_left_child) ==
    LET half_max_len == max_value_len \div 2
    IN  IF is_left_child
        THEN slice_assign(line_blocks, start, end,
                << Chars(SP, max_value_len - half_max_len) \o Chars(DASH, half_max_len) >>
                \o Chars(Chars(DASH, max_value_len), end - start - 1))
        ELSE slice_assign(line_blocks, start + 1, end + 1,
                Chars(Chars(DASH, max_value_len), end - start - 1)
                \o << Chars(DASH, half_max_len) \o Chars(SP, max_value_len - half_max_len) >>)

\* the child looked up by its value instead of its identity
child_index_by_value(tree_line_below, child) ==
    LET hits  == {j \in 1..Len(tree_line_below) :
                     get_value(tree_line_below[j][2]) = get_value(child)}
        first == CHOOSE j \in hits : \A k \in hits : j <= k
    IN  tree_line_below[first][1]

\* next(filter(lambda x: x[1] == child, tree_line_below))[0]; Node defines no
\* __eq__, so == is object identity
child_index(tree_line_below, child) ==
    LET hits  == {j \in 1..Len(tree_line_below) : tree_line_below[j][2] = child}
        first == CHOOSE j \in hits : \A k \in hits : j <= k
    IN  tree_line_below[first][1]

\* the body of the loop over tree_line_above, for its i-th entry
second_line_step(line_blocks, entry, tree_line_below) ==
    LET parent_index == entry[1]
        node         == entry[2]
        after_left   ==
            IF get_left(node) # None
            THEN fill_line_blocks(line_blocks,
                     child_index(tree_line_below, get_left(node)), parent_index, TRUE)
            ELSE line_blocks
    IN  IF get_right(node) # None
        THEN fill_line_blocks(after_left, parent_index,
                 child_index(tree_line_below, get_right(node)), FALSE)
        ELSE after_left

RECURSIVE second_line_loop(_, _, _, _)
second_line_loop(line_blocks, tree_line_above, tree_line_below, i) ==
    IF i > Len(tree_line_above) THEN line_blocks
    ELSE second_line_loop(
             second_line_step(line_blocks, tree_line_above[i], tree_line_below),
             tree_line_above, tree_line_below, i + 1)

\* the list of blocks _get_second_line_below_tree_line joins
second_line_blocks(tree_line_above, tree_line_below) ==
    LET line_blocks_length ==
            Max2(tree_line_above[Len(tree_line_above)][1],
                 tree_line_below[Len(tree_line_below)][1])
    IN  second_line_loop(Chars(Chars(SP, max_value_len), line_blocks_length),
                         tree_line_above, tree_line_below, 1)

get_second_line_below_tree_line(tree_line_above, tree_line_below) ==
    join(second_line_blocks(tree_line_above, tree_line_below))

get_third_line_below_tree_line(tree_line_below) ==
    format_tree_line_with_offsets(tree_line_below, "third_line")

-----------------------------------------------------------------------------
(* TreePrinter.__str__ *)

\* enumerate(self._inorder_listinfo) grouped by level into lines_dict, then
\* [lines_dict[k] for k in sorted(lines_dict)]
RECURSIVE sorted_keys(_)
sorted_keys(S) ==
    IF S = {} THEN <<>>
    ELSE LET m == CHOOSE x \in S : \A y \in S : x <= y
         IN  <<m>> \o sorted_keys(S \ {m})

str_tree_lines(items) ==
    LET enumerated == [i \in 1..Len(items) |-> <<i - 1, items[i]>>]
        keys       == sorted_keys({items[i][1] : i \in 1..Len(items)})
        lines_dict(k) ==
            LET sel == SelectSeq(enumerated, LAMBDA e : e[2][1] = k)
            IN  [j \in 1..Len(sel) |-> <<sel[j][1], sel[j][2][2]>>]
    IN  [n \in 1..Len(keys) |-> lines_dict(keys[n])]

str_first_lines(tls) ==
    [i \in 1..Len(tls) |-> get_first_line_below_tree_line(tls[i])]

\* one entry per tree line but the last, then ''
str_second_lines(tls) ==
    [i \in 1..(Len(tls) - 1) |-> get_second_line_below_tree_line(tls[i], tls[i + 1])]
    \o << <<>> >>

\* one entry per tree line but the first, then ''
str_third_lines(tls) ==
    [i \in 1..(Len(tls) - 1) |-> get_third_line_below_tree_line(tls[i + 1])]
    \o << <<>> >>

\* the bridge row and the vertical-stub row in each other's place
str_assemble_swapped(sk, fl, sl, tl) ==
    LET n == Min2(Min2(Len(sk), Len(fl)), Min2(Len(sl), Len(tl)))
    IN  rstrip(sep_join(<<NL>>,
            [i \in 1..n |-> sk[i] \o <<NL>> \o fl[i] \o <<NL>> \o tl[i] \o <<NL>> \o sl[i]]))

\* NL.join(f"{x[0]}\n{x[1]}\n{x[2]}\n{x[3]}" for x in zip(...)).rstrip()
str_assemble(sk, fl, sl, tl) ==
    LET n == Min2(Min2(Len(sk), Len(fl)), Min2(Len(sl), Len(tl)))
    IN  rstrip(sep_join(<<NL>>,
            [i \in 1..n |-> sk[i] \o <<NL>> \o fl[i] \o <<NL>> \o sl[i] \o <<NL>> \o tl[i]]))

\* The exception __str__ ends with, "" when it returns: a listing entry that
\* is not a Node makes node.get_value() raise AttributeError, and a child
\* that is not in the line below makes next(filter(...)) raise StopIteration
str_raises(tls) ==
    IF \E d \in 1..Len(tls) : \E i \in 1..Len(tls[d]) : tls[d][i][2] = None
    THEN "AttributeError"
    ELSE IF \E d \in 1..(Len(tls) - 1) : \E i \in 1..Len(tls[d]) :
              \E ch \in {get_left(tls[d][i][2]), get_right(tls[d][i][2])} \ {None} :
                  \A j \in 1..Len(tls[d + 1]) : tls[d + 1][j][2] # ch
    THEN "StopIteration"
    ELSE ""

-----------------------------------------------------------------------------
(* The state machine *)

\* the caller has built a tree of at most MaxNodes nodes, or one of at most
\* MaxExtraNodes nodes that may hold the extra values, or nothing at all
Init ==
    /\ nodes \in UNION {Trees(Values, n) : n \in 0..MaxNodes}
                \cup UNION {Trees(Values \cup ExtraValues, n) : n \in 0..MaxExtraNodes}
    /\ constructed = FALSE
    /\ root = None
    /\ max_value_len = 0
    /\ inorder_listinfo = [chain |-> FALSE, items |-> <<>>]
    /\ renders = 0
    /\ tree_lines = <<>>
    /\ scheleton_lines = <<>>
    /\ first_lines = <<>>
    /\ second_lines = <<>>
    /\ third_lines = <<>>
    /\ first_out = <<>>
    /\ out = <<>>
    /\ raised = ""

\* TreePrinter.__init__(root)
NewPrinter(r) ==
    /\ ~constructed
    /\ r \in Orphans \cup {None}
    /\ constructed' = TRUE
    /\ root' = r
    /\ max_value_len' = init_max_value_len(r)
    /\ inorder_listinfo' = get_inorder_listinfo(r)
    /\ UNCHANGED <<nodes, renders, tree_lines, scheleton_lines, first_lines,
                   second_lines, third_lines, first_out, out, raised>>

\* TreePrinter.__str__(): the listing is enumerated (which consumes a chain
\* object), then the rows are built and joined, unless building them raises
Render ==
    /\ constructed
    /\ renders < MaxRenders
    /\ LET tls == str_tree_lines(inorder_listinfo.items)
           exc == str_raises(tls)
       IN  /\ tree_lines' = tls
           /\ raised' = exc
           /\ IF exc # ""
              THEN UNCHANGED <<scheleton_lines, first_lines, second_lines,
                               third_lines, first_out, out>>
              ELSE LET sk  == build_tree_scheleton(tls)
                       fl  == str_first_lines(tls)
                       sl  == str_second_lines(tls)
                       tl  == str_third_lines(tls)
                       res == str_assemble(sk, fl, sl, tl)
                   IN  /\ scheleton_lines' = sk
                       /\ first_lines' = fl
                       /\ second_lines' = sl
                       /\ third_lines' = tl
                       /\ out' = res
                       /\ first_out' = IF renders = 0 THEN res ELSE first_out
    /\ inorder_listinfo' =
           IF inorder_listinfo.chain
           THEN [inorder_listinfo EXCEPT !.items = <<>>]
           ELSE inorder_listinfo
    /\ renders' = renders + 1
    /\ UNCHANGED <<nodes, constructed, root, max_value_len>>

Next ==
    \/ \E r \in 0..Len(nodes) : NewPrinter(r)
    \/ Render

Spec == Init /\ [][Next]_vars

-----------------------------------------------------------------------------
(* Vocabulary of the properties, defined from the tree itself and from the  *)
(* characters of the rows, not from the operators that build the rows.      *)

\* the nodes of the subtree rooted at n
RECURSIVE Subtree(_)
Subtree(n) ==
    IF n = None THEN {} ELSE {n} \cup Subtree(nodes[n].left) \cup Subtree(nodes[n].right)

\* the nodes of the view's tree
TreeNodes == Subtree(root)

\* root = 0, children = parent + 1
DepthOf(n) == Cardinality({a \in TreeNodes : a # n /\ n \in Subtree(a)})

\* number of depth levels of the view's tree
Levels == IF root = None THEN 0
          ELSE 1 + (CHOOSE d \in {DepthOf(n) : n \in TreeNodes} :
                        \A n \in TreeNodes : DepthOf(n) <= d)

SetMax(S) == CHOOSE x \in S : \A y \in S : y <= x

\* the cell width of the latest view
W == max_value_len

\* a render that enumerated the listing built at construction
FirstRender == constructed /\ renders = 1 /\ raised = ""

\* the entries <<column, node>> __str__ grouped under depth d (d = 0 for the root)
LevelEntries(d) == {tree_lines[d + 1][i] : i \in 1..Len(tree_lines[d + 1])}

\* every entry __str__ enumerated, with its depth: <<depth, column, node>>
Entries ==
    UNION {{<<d, e[1], e[2]>> : e \in LevelEntries(d)} : d \in 0..(Len(tree_lines) - 1)}

\* a render of the latest view has returned
Rendered == constructed /\ renders >= 1 /\ raised = ""

\* largest column among the entries of depth d
LastColumn(d) == SetMax({e[1] : e \in LevelEntries(d)})

\* block k (zero-based) of a row of W-wide blocks
Block(row, k) == SubSeq(row, k * W + 1, (k + 1) * W)

IsBlank(s) == \A i \in 1..Len(s) : s[i] \in Whitespace

\* block holds value with blanks on both sides, the two pads differing by at most one
IsCentered(block, value) ==
    \E l \in 0..Len(block) :
        /\ l + Len(value) <= Len(block)
        /\ LET r == Len(block) - Len(value) - l
           IN  /\ l - r \in {-1, 0, 1}
               /\ block = Chars(SP, l) \o value \o Chars(SP, r)

\* s without its trailing whitespace: s less its last k characters, these
\* being whitespace and the one before them not
Trimmed(s) ==
    LET k == CHOOSE k \in 0..Len(s) :
                 /\ \A i \in (Len(s) - k + 1)..Len(s) : s[i] \in Whitespace
                 /\ k < Len(s) => s[Len(s) - k] \notin Whitespace
    IN  SubSeq(s, 1, Len(s) - k)

\* the lines of a text: the pieces between its newline characters
TextLines(s) ==
    LET nl  == {i \in 1..Len(s) : s[i] = NL}
        cut == [k \in 0..(Cardinality(nl) + 1) |->
                  IF k = 0 THEN 0
                  ELSE IF k = Cardinality(nl) + 1 THEN Len(s) + 1
                  ELSE CHOOSE i \in nl : Cardinality({j \in nl : j < i}) = k - 1]
    IN  [k \in 1..(Cardinality(nl) + 1) |-> SubSeq(s, cut[k - 1] + 1, cut[k] - 1)]

-----------------------------------------------------------------------------
(* C1 -- idempotence of rendering *)

\* C1: every render of a view of a non-empty tree returns the string the
\* first render of that view returned.
C1_RenderIdempotent ==
    (constructed /\ root # None /\ renders >= 1) => (raised = "" /\ out = first_out)

\* C1 witness: a view of a non-empty tree has been rendered twice
C1_Witness == constructed /\ root # None /\ renders >= 2

-----------------------------------------------------------------------------
(* C2 -- cell width *)

\* longest value-string length over the nodes of the view's tree (0 for none)
LongestValue == SetMax({0} \cup {Len(nodes[n].value) : n \in TreeNodes})

\* C2: the cell width is max(2, longest value length) clipped to
\* VALUE_MAX_LEN, so it always lies in 2..VALUE_MAX_LEN.
C2_CellWidthClipped ==
    constructed =>
        /\ max_value_len = Min2(VALUE_MAX_LEN, Max2(2, LongestValue))
        /\ 2 <= max_value_len
        /\ max_value_len <= VALUE_MAX_LEN

-----------------------------------------------------------------------------
(* C3 -- column ordering *)

\* the zero-based positions at which node n stands in the sequence s
PositionsIn(s, n) == {i - 1 : i \in {j \in 1..Len(s) : s[j][2] = n}}

\* C3: in the sequence _get_inorder_listinfo produces for the view's tree
\* every node stands at exactly one position (its column index), every
\* node of its left subtree at a smaller one and every node of its right
\* subtree at a larger one; __str__ enumerates the nodes with these
\* column indexes and groups each under its depth.
C3_ColumnOrdering ==
    constructed =>
        LET s == get_inorder_listinfo(root).items
            col(n) == CHOOSE c \in PositionsIn(s, n) : TRUE
        IN  /\ Len(s) = Cardinality(TreeNodes)
            /\ \A n \in TreeNodes :
                  /\ Cardinality(PositionsIn(s, n)) = 1
                  /\ s[col(n) + 1][1] = DepthOf(n)
                  /\ \A m \in Subtree(nodes[n].left) : col(m) < col(n)
                  /\ \A m \in Subtree(nodes[n].right) : col(m) > col(n)
            /\ \A n, m \in TreeNodes : n # m => col(n) # col(m)
            /\ renders = 0 => inorder_listinfo.items = s
            /\ FirstRender => Entries = {<<DepthOf(n), col(n), n>> : n \in TreeNodes}
            /\ Entries \subseteq {<<DepthOf(n), col(n), n>> : n \in TreeNodes}

\* C3 witness: a rendered three-node tree whose root has a left and a right child
C3_Witness ==
    /\ FirstRender
    /\ root # None
    /\ nodes[root].left # None
    /\ nodes[root].right # None
    /\ Cardinality(Entries) = 3

-----------------------------------------------------------------------------
(* C4 -- the stub row *)

\* C4: the stub row of depth d spans the columns up to the last node of
\* that depth, has '/' at offset c*W exactly for the nodes (column c) with
\* a left child, '\' at offset c*W + W - 1 exactly for the nodes with a
\* right child, and a space everywhere else.
C4_StubRow ==
    Rendered =>
        /\ Len(first_lines) = Len(tree_lines)
        /\ \A d \in 0..(Len(tree_lines) - 1) :
              LET row == first_lines[d + 1]
                  E   == LevelEntries(d)
              IN  /\ \A e \in E : DepthOf(e[2]) = d
                  /\ Len(row) = (LastColumn(d) + 1) * W
                  /\ \A p \in 0..(Len(row) - 1) :
                        row[p + 1] =
                            IF \E e \in E : p = e[1] * W /\ nodes[e[2]].left # None
                            THEN SLASH
                            ELSE IF \E e \in E : p = e[1] * W + W - 1
                                                  /\ nodes[e[2]].right # None
                            THEN BACKSLASH
                            ELSE SP

\* C4 witness: a rendered tree with a node that has only a left child and a
\* node that has only a right child
C4_Witness ==
    /\ FirstRender
    /\ \E e \in Entries : nodes[e[3]].left # None /\ nodes[e[3]].right = None
    /\ \E e \in Entries : nodes[e[3]].left = None /\ nodes[e[3]].right # None

-----------------------------------------------------------------------------
(* C5 -- a single-node tree *)

\* the view's tree is one node
SingleNode == constructed /\ root # None /\ TreeNodes = {root}

\* C5: a single-node tree renders as one line, its value centered and padded
\* to the cell width W.
C5_LeafPadded ==
    (FirstRender /\ SingleNode) =>
        /\ Len(out) = W
        /\ IsCentered(out, nodes[root].value)

\* C5 amended: no render of a single-node tree contains a newline, and the
\* render that enumerates the listing returns the value centered in W with
\* the trailing whitespace removed; the connector rows built for it are
\* blank or empty.
C5_LeafTrimmed ==
    (Rendered /\ SingleNode) =>
        /\ \A i \in 1..Len(out) : out[i] # NL
        /\ FirstRender =>
              /\ \E block \in {Chars(SP, l) \o nodes[root].value
                                 \o Chars(SP, W - Len(nodes[root].value) - l) :
                               l \in 0..(W - Len(nodes[root].value))} :
                    /\ IsCentered(block, nodes[root].value)
                    /\ out = Trimmed(block)
              /\ Len(tree_lines) = 1
              /\ IsBlank(first_lines[1])
              /\ second_lines = << <<>> >>
              /\ third_lines = << <<>> >>

\* C5 witness: the single node 5 has been rendered, as the one character 5
C5_Witness ==
    /\ FirstRender
    /\ SingleNode
    /\ nodes[root].value = Five
    /\ out = Five

-----------------------------------------------------------------------------
(* C6 -- the width invariant *)

\* C6: every value is at most W long and its centered block is W wide; the
\* skeleton, stub, bridge and vertical-stub rows all have a length that is
\* a multiple of W, and so has every line of the output but the trimmed
\* last one.
C6_WidthInvariant ==
    constructed =>
        /\ \A n \in TreeNodes :
              /\ Len(nodes[n].value) <= W
              /\ Len(get_centered_node_value(n)) = W
        /\ Rendered =>
              /\ \A i \in 1..Len(scheleton_lines) : Len(scheleton_lines[i]) % W = 0
              /\ \A i \in 1..Len(first_lines) : Len(first_lines[i]) % W = 0
              /\ \A i \in 1..Len(second_lines) : Len(second_lines[i]) % W = 0
              /\ \A i \in 1..Len(third_lines) : Len(third_lines[i]) % W = 0
              /\ LET lines == TextLines(out)
                 IN  \A i \in 1..(Len(lines) - 1) : Len(lines[i]) % W = 0

\* C6 witness: a rendered tree of two levels or more with a value shorter
\* than the cell width
C6_Witness ==
    /\ FirstRender
    /\ Len(tree_lines) >= 2
    /\ \E n \in TreeNodes : Len(nodes[n].value) < W

-----------------------------------------------------------------------------
(* C7 -- the absent root *)

\* C7: every render of a view built from an absent root returns, raising
\* nothing, the empty string.
C7_AbsentRoot ==
    (constructed /\ root = None /\ renders >= 1) =>
        /\ raised = ""
        /\ out = <<>>
        /\ first_out = <<>>

\* C7 witness: a view of the absent root has been rendered twice
C7_Witness == constructed /\ root = None /\ renders >= 2 /\ out = <<>>

-----------------------------------------------------------------------------
(* C8 -- skeleton placement *)

\* C8: the skeleton row of depth d holds exactly the nodes of depth d; it
\* spans the columns up to the last of them, the block of column c holding
\* the centered value of the node of that column when the node has depth d
\* and W spaces otherwise.
C8_SkeletonPlacement ==
    Rendered =>
        /\ Len(scheleton_lines) = Len(tree_lines)
        /\ \A d \in 0..(Len(tree_lines) - 1) :
              LET row == scheleton_lines[d + 1]
                  E   == LevelEntries(d)
              IN  /\ \A e \in E : DepthOf(e[2]) = d
                  /\ FirstRender => {e[2] : e \in E} = {n \in TreeNodes : DepthOf(n) = d}
                  /\ Len(row) = (LastColumn(d) + 1) * W
                  /\ \A c \in 0..LastColumn(d) :
                        IF \E e \in E : e[1] = c
                        THEN \A e \in E :
                                e[1] = c => IsCentered(Block(row, c), nodes[e[2]].value)
                        ELSE Block(row, c) = Chars(SP, W)

\* C8 witness: a rendered level with two nodes and a column of another
\* depth between them
C8_Witness ==
    /\ FirstRender
    /\ \E d \in 0..(Len(tree_lines) - 1) :
          \E e1, e2 \in LevelEntries(d) : e2[1] = e1[1] + 2

-----------------------------------------------------------------------------
(* C9 -- the bridge row *)

\* the parent-child pairs between depth d and depth d + 1, each as
\* <<parent column, child column, side>>; the child is the very node the
\* parent refers to
Pairs(d) ==
    UNION {{<<pc[1][1], pc[2][1], side>> :
              side \in (IF nodes[pc[1][2]].left = pc[2][2] THEN {"left"} ELSE {})
                       \cup (IF nodes[pc[1][2]].right = pc[2][2] THEN {"right"} ELSE {})}
           : pc \in LevelEntries(d) \X LevelEntries(d + 1)}

\* k lies strictly between the columns a and b
Between(k, a, b) == (a < k /\ k < b) \/ (b < k /\ k < a)

\* C9: the bridge row between depth d and d + 1 is made of W-wide blocks and
\* reaches every child's column.  Its block of column k is W dashes exactly
\* when k lies strictly between a parent's column and the column of one of
\* its children; it is half dashed exactly when k is a child's column (the
\* W div 2 dashes at the right end for a left child, at the left end for a
\* right child); it is W spaces otherwise.  No column is claimed by two
\* pairs, and a parent's own column stays blank.
C9_BridgeRow ==
    Rendered =>
        \A d \in 0..(Len(tree_lines) - 2) :
            LET row     == second_lines[d + 1]
                pairs   == Pairs(d)
                half    == W \div 2
                nblocks == Len(row) \div W
                full(k)  == \E pr \in pairs : Between(k, pr[1], pr[2])
                lchild(k) == \E pr \in pairs : pr[2] = k /\ pr[3] = "left"
                rchild(k) == \E pr \in pairs : pr[2] = k /\ pr[3] = "right"
            IN  /\ Len(row) = nblocks * W
                /\ \A c \in LevelEntries(d + 1) :
                      /\ c[1] < nblocks
                      /\ \E pr \in pairs : pr[2] = c[1]
                /\ \A k \in 0..(nblocks - 1) :
                      /\ ~(full(k) /\ (lchild(k) \/ rchild(k)))
                      /\ ~(lchild(k) /\ rchild(k))
                      /\ Cardinality({pr \in pairs :
                                        pr[2] = k \/ Between(k, pr[1], pr[2])}) <= 1
                      /\ Block(row, k) =
                            IF full(k) THEN Chars(DASH, W)
                            ELSE IF lchild(k)
                            THEN Chars(SP, W - half) \o Chars(DASH, half)
                            ELSE IF rchild(k)
                            THEN Chars(DASH, half) \o Chars(SP, W - half)
                            ELSE Chars(SP, W)
                      /\ (\E p \in LevelEntries(d) : p[1] = k)
                            => Block(row, k) = Chars(SP, W)

\* C9 witness: a rendered tree in which two nodes of one level carry the
\* same value and the second of them is a right child standing two columns
\* or more from its parent, a full block of dashes bridging the two
C9_Witness ==
    /\ FirstRender
    /\ \E d \in 0..(Len(tree_lines) - 2) :
          \E c1, c2 \in LevelEntries(d + 1) :
              /\ c1[1] < c2[1]
              /\ nodes[c1[2]].value = nodes[c2[2]].value
              /\ \E pr \in Pairs(d) :
                    /\ pr[3] = "right"
                    /\ pr[2] = c2[1]
                    /\ pr[2] >= pr[1] + 2
                    /\ Block(second_lines[d + 1], pr[1] + 1) = Chars(DASH, W)

-----------------------------------------------------------------------------
(* C10 -- final assembly *)

\* the vertical-stub row above depth d: one '|' at offset c*W + W div 2 for
\* every node of depth d (column c), spaces elsewhere
IsVerticalRow(row, d) ==
    /\ Len(row) = (LastColumn(d) + 1) * W
    /\ \A p \in 0..(Len(row) - 1) :
          row[p + 1] = IF \E e \in LevelEntries(d) : p = e[1] * W + (W \div 2)
                       THEN BAR ELSE SP

\* C10: for a tree of L >= 1 depth levels with no blank value the output
\* has 4L - 3 lines: for each depth d but the deepest the skeleton row of d,
\* the stub row of d, the bridge row between d and d + 1 and the
\* vertical-stub row of d + 1, then the skeleton row of the deepest level
\* without its trailing whitespace, which ends the output.
C10_FinalAssembly ==
    (FirstRender /\ root # None /\ \A n \in TreeNodes : ~IsBlank(nodes[n].value)) =>
        LET L     == Levels
            lines == TextLines(out)
        IN  /\ L >= 1
            /\ Len(tree_lines) = L
            /\ Len(lines) = 4 * L - 3
            /\ \A d \in 0..(L - 2) :
                  /\ lines[4 * d + 1] = scheleton_lines[d + 1]
                  /\ lines[4 * d + 2] = first_lines[d + 1]
                  /\ lines[4 * d + 3] = second_lines[d + 1]
                  /\ lines[4 * d + 4] = third_lines[d + 1]
                  /\ IsVerticalRow(third_lines[d + 1], d + 1)
            /\ lines[4 * L - 3] = Trimmed(scheleton_lines[L])
            /\ ~IsBlank(lines[4 * L - 3])
            /\ out # <<>> /\ out[Len(out)] \notin Whitespace

\* C10 witness: a tree of three levels with no blank value has been rendered
\* in nine lines
C10_Witness ==
    /\ FirstRender
    /\ \A n \in TreeNodes : ~IsBlank(nodes[n].value)
    /\ Levels = 3
    /\ Len(TextLines(out)) = 9

=============================================================================
